---- MODULE Spec2Model ----
(***************************************************************************)
(* File storage / access control and profile handlers of the chat backend. *)
(*   middleware/upload.js      (src/unnamed/part_000)                      *)
(*   fileController + userController using ProfileCacheService            *)
(*                             (src/unnamed/part_001)                      *)
(*   controllers/userController.js, services/profileCacheService.js        *)
(***************************************************************************)
EXTENDS Integers, Sequences, FiniteSets, TLC

(***************************************************************************)
(* Part 1.  middleware/upload.js: type table, fileFilter, storage.key      *)
(***************************************************************************)

\* A content type "t/s" is the record [t |-> "t", s |-> "s"], so that
\* mimetype.split('/')[0] is the field t.
Mime(t, s) == [t |-> t, s |-> s]

\* An extension or a file name is a sequence of one-character strings.
ExtJpg  == <<".", "j", "p", "g">>
ExtJpeg == <<".", "j", "p", "e", "g">>
ExtPng  == <<".", "p", "n", "g">>
ExtGif  == <<".", "g", "i", "f">>
ExtWebp == <<".", "w", "e", "b", "p">>
ExtMp4  == <<".", "m", "p", "4">>
ExtWebm == <<".", "w", "e", "b", "m">>
ExtMov  == <<".", "m", "o", "v">>
ExtMp3  == <<".", "m", "p", "3">>
ExtWav  == <<".", "w", "a", "v">>
ExtOgg  == <<".", "o", "g", "g">>
ExtPdf  == <<".", "p", "d", "f">>
ExtDoc  == <<".", "d", "o", "c">>
ExtDocx == <<".", "d", "o", "c", "x">>

MimeDocx == Mime("application", "vnd.openxmlformats-officedocument.wordprocessingml.document")

\* ALLOWED_TYPES: content type -> permitted extensions.
ALLOWED_TYPES ==
  [m \in { Mime("image", "jpeg"), Mime("image", "png"), Mime("image", "gif"),
           Mime("image", "webp"), Mime("video", "mp4"), Mime("video", "webm"),
           Mime("video", "quicktime"), Mime("audio", "mpeg"), Mime("audio", "wav"),
           Mime("audio", "ogg"), Mime("application", "pdf"),
           Mime("application", "msword"), MimeDocx } |->
     CASE m = Mime("image", "jpeg")      -> {ExtJpg, ExtJpeg}
       [] m = Mime("image", "png")       -> {ExtPng}
       [] m = Mime("image", "gif")       -> {ExtGif}
       [] m = Mime("image", "webp")      -> {ExtWebp}
       [] m = Mime("video", "mp4")       -> {ExtMp4}
       [] m = Mime("video", "webm")      -> {ExtWebm}
       [] m = Mime("video", "quicktime") -> {ExtMov}
       [] m = Mime("audio", "mpeg")      -> {ExtMp3}
       [] m = Mime("audio", "wav")       -> {ExtWav}
       [] m = Mime("audio", "ogg")       -> {ExtOgg}
       [] m = Mime("application", "pdf") -> {ExtPdf}
       [] m = Mime("application", "msword") -> {ExtDoc}
       [] OTHER                          -> {ExtDocx}]

\* ALLOWED_TYPES[mimetype] is truthy
IsAllowedType(m) == m \in DOMAIN ALLOWED_TYPES

\* Object.values(ALLOWED_TYPES).flat()
AllowedExtensions == UNION { ALLOWED_TYPES[m] : m \in DOMAIN ALLOWED_TYPES }

\* getFileType: user-facing category of a content type.
getFileType(m) ==
  CASE m.t = "image"       -> "image"
    [] m.t = "video"       -> "video"
    [] m.t = "audio"       -> "audio"
    [] m.t = "application" -> "document"
    [] OTHER               -> "file"

\* String.prototype.toLowerCase on one character.
LowerChar(c) ==
  CASE c = "P" -> "p" [] c = "N" -> "n" [] c = "G" -> "g"
    [] c = "J" -> "j" [] c = "E" -> "e" [] c = "X" -> "x"
    [] c = "D" -> "d" [] c = "O" -> "o" [] c = "C" -> "c"
    [] OTHER -> c

toLowerCase(s) == [i \in 1..Len(s) |-> LowerChar(s[i])]

\* Buffer.from(name, 'binary').toString('utf8'): the name arrives as one
\* character per byte; a well-formed three-byte sequence (here ED 95 9C)
\* becomes one character, a byte that can start no sequence (FF) becomes
\* U+FFFD, an ASCII byte stays.
RECURSIVE DecodeUtf8(_)
DecodeUtf8(s) ==
  IF s = <<>> THEN <<>>
  ELSE IF Len(s) >= 3 /\ SubSeq(s, 1, 3) = <<"xED", "x95", "x9C">>
       THEN <<"U+D55C">> \o DecodeUtf8(SubSeq(s, 4, Len(s)))
  ELSE IF Head(s) = "xFF"
       THEN <<"U+FFFD">> \o DecodeUtf8(Tail(s))
  ELSE <<Head(s)>> \o DecodeUtf8(Tail(s))

\* UTF-8 width of one character.
Utf8Width(c) == IF c \in {"U+D55C", "U+FFFD"} THEN 3 ELSE 1

RECURSIVE Utf8Bytes(_)
Utf8Bytes(s) == IF s = <<>> THEN 0 ELSE Utf8Width(Head(s)) + Utf8Bytes(Tail(s))

\* A file name is [pad, chars]: pad leading ASCII letters 'a' followed by
\* chars (long names are not spelled out character by character).
FileName(pad, chars) == [pad |-> pad, chars |-> chars]

\* originalname after the binary -> utf8 conversion
CanonicalName(name) == [pad |-> name.pad, chars |-> DecodeUtf8(name.chars)]

\* Buffer.from(originalname, 'utf8').length
ByteLength(name) == name.pad + Utf8Bytes(name.chars)

\* path.extname: from the last '.' of the name to its end; empty when there
\* is no '.' or when the only '.' is the first character of the name.
LastDot(chars) ==
  LET dots == { i \in 1..Len(chars) : chars[i] = "." }
  IN  IF dots = {} THEN 0 ELSE CHOOSE i \in dots : \A j \in dots : j <= i

extname(name) ==
  LET d == LastDot(name.chars)
  IN  IF d = 0 \/ (d = 1 /\ name.pad = 0) THEN <<>>
      ELSE SubSeq(name.chars, d, Len(name.chars))

MaxNameBytes == 255

\* fileFilter(req, file, cb): the error message passed to cb, or acceptance.
fileFilterBugNoExtCheck(mimetype, rawname) ==
  LET originalname == CanonicalName(rawname)
  IN  IF ~IsAllowedType(mimetype)
        THEN [ok |-> FALSE, msg |-> "unsupported format", type |-> getFileType(mimetype)]
      ELSE IF ByteLength(originalname) > MaxNameBytes
        THEN [ok |-> FALSE, msg |-> "filename too long", type |-> "none"]
      ELSE [ok |-> TRUE, msg |-> "none", type |-> "none"]

fileFilter(mimetype, rawname) ==
  LET originalname == CanonicalName(rawname)
  IN  IF ~IsAllowedType(mimetype)
        THEN [ok |-> FALSE, msg |-> "unsupported format", type |-> getFileType(mimetype)]
      ELSE IF ByteLength(originalname) > MaxNameBytes
        THEN [ok |-> FALSE, msg |-> "filename too long", type |-> "none"]
      ELSE IF toLowerCase(extname(originalname)) \notin ALLOWED_TYPES[mimetype]
        THEN [ok |-> FALSE, msg |-> "wrong extension", type |-> getFileType(mimetype)]
      ELSE [ok |-> TRUE, msg |-> "none", type |-> "none"]

\* isPathSafe(key): key is a string that starts with 'uploads/'.  A key or
\* URL is the sequence of its '/'-separated segments.
isPathSafe(key) == Len(key) >= 2 /\ key[1] = "uploads"

(***************************************************************************)
(* Part 2.  State                                                          *)
(***************************************************************************)

VARIABLES
  files,      \* catalog: the File documents
  messages,   \* the Message documents that reference a file
  store,      \* object store: the keys that hold an object
  acked,      \* keys whose put the object store has acknowledged
  nextId,     \* source of generated names and document ids
  deletedOk,  \* filenames whose deleteFile has responded with success
  reqs,       \* the requests of the file controller, one per slot
  users,      \* the User documents
  cache,      \* redis: user id -> cached profile
  ureqs,      \* the requests of the user controllers, one per slot
  controller, \* the user controller that serves the profile routes
  closed,     \* user ids whose deleteAccount has responded with success
  fin,        \* fileFilter's input, [mimetype, name]
  fout        \* fileFilter's result for fin

vars == << files, messages, store, acked, nextId, deletedOk, reqs,
           users, cache, ureqs, controller, closed, fin, fout >>

userVars   == << users, cache, ureqs, controller, closed >>
filterVars == << fin, fout >>

\* ---- bounds of the model ----
MaxFiles == 1      \* uploads that reach key generation
MaxReqs  == 2      \* file-controller requests in flight
MaxUReqs == 2      \* user-controller requests in flight

Slots  == 1..MaxReqs
USlots == 1..MaxUReqs

UserIds == {"u1", "u2", "u3"}
RoomIds == {"r1", "r2"}

\* Room documents: fixed (no handler of these files changes a room).
Participants(r) == IF r = "r1" THEN {"u1", "u2"} ELSE {"u3"}

NoName == [n |-> 0, ext |-> <<>>]
NoKey  == <<>>
NoFile == [id |-> 0, filename |-> NoName, mimetype |-> Mime("", ""), size |-> 0,
           user |-> "", path |-> NoKey]

Body(msg, detail) == [msg |-> msg, detail |-> detail]

\* the idle request of a slot
NoReq == [kind |-> "none", pc |-> "idle", user |-> "", arg |-> NoName,
          file |-> NoFile, room |-> "", status |-> 0, url |-> NoKey,
          late |-> FALSE, dup |-> FALSE, s3err |-> FALSE,
          body |-> Body("none", FALSE),
          cred |-> FALSE, absent |-> FALSE, calls |-> <<>>, nresp |-> 0]

\* a user document as a handler holds it, an absent user, an idle slot of
\* the user controllers
NoDoc  == [name |-> "", profileImage |-> NoKey]
NoUser == [exists |-> FALSE, name |-> "", profileImage |-> NoKey]

NoUReq == [ctl |-> "none", kind |-> "none", pc |-> "idle", user |-> "", img |-> NoKey,
           doc |-> NoDoc, key |-> NoKey, sent |-> NoKey, s3err |-> FALSE,
           saved |-> FALSE, saveErr |-> FALSE, cacheErr |-> FALSE, status |-> 0,
           name |-> "", late |-> FALSE, served |-> NoDoc, fromCache |-> FALSE]

\* A handler's continuation runs to completion: the response it writes ends
\* the request before any other continuation runs.  pc = "done" is the
\* response being written; the slot is freed by Finish.
Quiet == \A s \in Slots : reqs[s].pc # "done"

\* a new request takes the first idle slot
Free(s) == Quiet /\ reqs[s].pc = "idle" /\ \A t \in Slots : t < s => reqs[t].pc # "idle"

\* the continuation of request s that follows the await named pc
At(s, pc) == Quiet /\ reqs[s].pc = pc

\* res.status(status).json(body) / res.redirect(url): the request is answered.
Respond(r, status, body) ==
  [r EXCEPT !.pc = "done", !.status = status, !.body = body, !.nresp = @ + 1]

\* `await call`: the call to the catalog, the store or the signer is issued
\* and the handler is suspended until it settles.
Await(r, call) == [r EXCEPT !.pc = call, !.calls = Append(@, call)]

(***************************************************************************)
(* Part 3.  File controller (part_001, lines 1-211) behind the upload      *)
(*          middleware (part_000)                                          *)
(***************************************************************************)

\* limits.fileSize of the multer instance, in MB
MaxUploadMB == 50

\* ---- inputs of the model ----
Uploaders    == {"u1"}
UploadInputs == { [mimetype |-> Mime("image", "png"), name |-> FileName(1, ExtPng)],
                  [mimetype |-> MimeDocx, name |-> FileName(1, ExtDocx)],
                  [mimetype |-> Mime("image", "png"), name |-> FileName(1, <<".", "e", "x", "e">>)] }
UploadSizes  == {2, 11, 51}     \* MB
StoredExts   == {ExtPng, ExtDocx}
ReadNames    == { [n |-> i, ext |-> e] : i \in 1..MaxFiles, e \in StoredExts }

\* File.isPreviewable() of models/File: image types and inline-viewable
\* documents.
isPreviewable(f) == f.mimetype.t = "image" \/ f.mimetype = Mime("application", "pdf")

\* FILE_SIZE_LIMITS, in MB
FILE_SIZE_LIMITS == [image |-> 10, video |-> 50, audio |-> 20, document |-> 20]

\* validateFileSize(file): the limit of the type's size class (document when
\* the class has none); TRUE, or the limit that the thrown error reports.
\* Exported by the middleware; neither the multer instance nor uploadFile
\* calls it.
validateFileSize(f) ==
  LET type  == f.mimetype.t
      limit == IF type \in DOMAIN FILE_SIZE_LIMITS THEN FILE_SIZE_LIMITS[type]
               ELSE FILE_SIZE_LIMITS.document
  IN  [ok |-> f.size <= limit, limitInMB |-> limit]

\* storage.key: the generated key `uploads/${timestamp}_${random}${ext}`, or
\* no key when the extension is in no allowed list.
storageKeyBare(rawname, n) ==
  LET ext == toLowerCase(extname(CanonicalName(rawname)))
  IN  IF ext \notin AllowedExtensions THEN NoKey
      ELSE <<[n |-> n, ext |-> ext]>>

storageKey(rawname, n) ==
  LET ext == toLowerCase(extname(CanonicalName(rawname)))
  IN  IF ext \notin AllowedExtensions THEN NoKey
      ELSE <<"uploads", [n |-> n, ext |-> ext]>>

\* key.split('/').pop()
LastSegment(key) == key[Len(key)]

\* new File({...}) of uploadFile, from req.file and req.user
NewFile(n, key, mimetype, size, u) ==
  [id |-> n, filename |-> LastSegment(key), mimetype |-> mimetype, size |-> size,
   user |-> u, path |-> key]

\* the response has been written: the request is over
Finish(s) ==
  /\ reqs[s].pc = "done"
  /\ reqs' = [reqs EXCEPT ![s] = NoReq]
  /\ UNCHANGED << files, messages, store, acked, nextId, deletedOk >>
  /\ UNCHANGED << userVars, filterVars >>

\* upload.single + uploadFile, up to the first await: no file in the request,
\* fileFilter, storage.key; then the put to the object store is under way.
UploadStart(s, u, hasFile, m, name, size) ==
  /\ Free(s)
  /\ nextId <= MaxFiles
  /\ LET r0  == [NoReq EXCEPT !.kind = "upload", !.user = u]
         flt == fileFilter(m, name)
         key == storageKey(name, nextId)
     IN  IF ~hasFile
           THEN /\ reqs' = [reqs EXCEPT ![s] = Respond(r0, 400, Body("no file selected", FALSE))]
                /\ UNCHANGED nextId
         ELSE IF ~flt.ok
           THEN /\ reqs' = [reqs EXCEPT ![s] = Respond(r0, 400, Body(flt.msg, FALSE))]
                /\ UNCHANGED nextId
         ELSE IF key = NoKey
           THEN /\ reqs' = [reqs EXCEPT ![s] = Respond(r0, 400, Body("unsupported extension", FALSE))]
                /\ UNCHANGED nextId
         ELSE /\ reqs' = [reqs EXCEPT ![s] =
                   Await([r0 EXCEPT !.file = NewFile(nextId, key, m, size, u)], "put")]
              /\ nextId' = nextId + 1
  /\ UNCHANGED << files, messages, store, acked, deletedOk >>
  /\ UNCHANGED << userVars, filterVars >>

\* multer-s3 streams the body to the store: the stream exceeds limits.fileSize
\* (LIMIT_FILE_SIZE, 413), the store fails (errorHandler, 400 with the error's
\* message), or the store acknowledges and uploadFile starts file.save().
UploadPutUnacked(s) ==
  /\ At(s, "put")
  /\ reqs' = [reqs EXCEPT ![s] = Await(reqs[s], "save")]
  /\ UNCHANGED << store, acked >>
  /\ UNCHANGED << files, messages, nextId, deletedOk >>
  /\ UNCHANGED << userVars, filterVars >>

UploadPut(s) ==
  /\ At(s, "put")
  /\ LET r == reqs[s]
     IN  IF r.file.size > MaxUploadMB
           THEN /\ reqs' = [reqs EXCEPT ![s] = Respond(r, 413, Body("50MB limit", FALSE))]
                /\ UNCHANGED << store, acked >>
         ELSE \/ /\ reqs' = [reqs EXCEPT ![s] =
                      Respond([r EXCEPT !.s3err = TRUE], 400, Body("store error", TRUE))]
                 /\ UNCHANGED << store, acked >>
              \/ /\ reqs' = [reqs EXCEPT ![s] = Await(r, "save")]
                 /\ store' = store \cup {r.file.path}
                 /\ acked' = acked \cup {r.file.path}
  /\ UNCHANGED << files, messages, nextId, deletedOk >>
  /\ UNCHANGED << userVars, filterVars >>

\* await file.save(); res.status(200) -- or the catch: 500 with error.message
UploadSave(s) ==
  /\ At(s, "save")
  /\ \/ /\ files' = files \cup {reqs[s].file}
        /\ reqs' = [reqs EXCEPT ![s] = Respond(@, 200, Body("upload ok", FALSE))]
     \/ /\ reqs' = [reqs EXCEPT ![s] = Respond(@, 500, Body("upload error", TRUE))]
        /\ UNCHANGED files
  /\ UNCHANGED << messages, store, acked, nextId, deletedOk >>
  /\ UNCHANGED << userVars, filterVars >>

\* A chat message that carries a file of the catalog is posted in a room
\* (Message: owning room, reference to one attachment).
PostMessage(f, room) ==
  /\ Quiet
  /\ f \in files
  /\ \A m \in messages : m.file # f.id
  /\ messages' = messages \cup {[file |-> f.id, room |-> room]}
  /\ UNCHANGED << files, store, acked, nextId, deletedOk, reqs >>
  /\ UNCHANGED << userVars, filterVars >>

\* The object of a key is removed from the store by other means than this
\* service (bucket lifecycle, an operator).
RemoveObject(k) ==
  /\ Quiet
  /\ k \in store
  /\ store' = store \ {k}
  /\ UNCHANGED << files, messages, acked, nextId, deletedOk, reqs >>
  /\ UNCHANGED << userVars, filterVars >>

\* ---- getFileFromRequest, downloadFile, viewFile ----

\* if (!token || !sessionId) throw new Error('Authentication required')
CredentialsMissingBoth(hasToken, hasSession) == ~hasToken /\ ~hasSession
CredentialsMissing(hasToken, hasSession) == ~hasToken \/ ~hasSession

\* File.findOne({ filename })
FindByName(name) == { f \in files : f.filename = name }

\* Message.findOne({ file: file._id })
MessagesOf(f) == { m \in messages : m.file = f.id }

\* Room.findOne({ _id: message.room, participants: req.user.id }) finds a room
RoomGrantsAnyone(room, u) == room \in RoomIds
RoomGrants(room, u) == room \in RoomIds /\ u \in Participants(room)

\* viewFile: if (!file.isPreviewable()) -> 415
PreviewRefusedNever(f) == FALSE
PreviewRefused(f) == ~isPreviewable(f)

\* handleFileError: error.message -> status and user-facing message
handleFileError(r, message) ==
  CASE message = "Invalid filename"           -> Respond(r, 400, Body("invalid filename", FALSE))
    [] message = "Authentication required"    -> Respond(r, 401, Body("authentication required", FALSE))
    [] message = "Invalid file path"          -> Respond(r, 400, Body("invalid file path", FALSE))
    [] message = "File not found in database" -> Respond(r, 404, Body("file not found", FALSE))
    [] message = "File message not found"     -> Respond(r, 404, Body("file message not found", FALSE))
    [] message = "Unauthorized access"        -> Respond(r, 403, Body("no access to file", FALSE))
    [] message = "ENOENT"                     -> Respond(r, 404, Body("file not found", FALSE))
    [] OTHER                                  -> Respond(r, 500, Body("file processing error", FALSE))

\* downloadFile / viewFile up to the first await of getFileFromRequest:
\* filename and credentials are read from the request and checked.
ReadStart(s, kind, u, name, hasToken, hasSession) ==
  /\ Free(s)
  /\ kind \in {"download", "view"}
  /\ LET r0 == [NoReq EXCEPT !.kind = kind, !.user = u, !.arg = name,
                             !.late = (name \in deletedOk),
                             !.cred = (hasToken /\ hasSession)]
     IN  reqs' = [reqs EXCEPT ![s] =
           IF name = NoName THEN handleFileError(r0, "Invalid filename")
           ELSE IF CredentialsMissing(hasToken, hasSession)
             THEN handleFileError(r0, "Authentication required")
           ELSE Await(r0, "findFile")]
  /\ UNCHANGED << files, messages, store, acked, nextId, deletedOk >>
  /\ UNCHANGED << userVars, filterVars >>

\* const file = await File.findOne({ filename })
ReadFindFile(s) ==
  /\ At(s, "findFile")
  /\ LET r == reqs[s]
         found == FindByName(r.arg)
     IN  reqs' = [reqs EXCEPT ![s] =
           IF found = {} THEN handleFileError(r, "File not found in database")
           ELSE Await([r EXCEPT !.file = CHOOSE f \in found : TRUE], "findMsg")]
  /\ UNCHANGED << files, messages, store, acked, nextId, deletedOk >>
  /\ UNCHANGED << userVars, filterVars >>

\* const message = await Message.findOne({ file: file._id })
ReadFindMessageOwnerPasses(s) ==
  /\ At(s, "findMsg")
  /\ LET r == reqs[s]
         found == MessagesOf(r.file)
     IN  reqs' = [reqs EXCEPT ![s] =
           IF found = {} /\ r.user = r.file.user THEN Await(r, "presign")
           ELSE IF found = {} THEN handleFileError(r, "File message not found")
           ELSE Await([r EXCEPT !.room = (CHOOSE m \in found : TRUE).room], "findRoom")]
  /\ UNCHANGED << files, messages, store, acked, nextId, deletedOk >>
  /\ UNCHANGED << userVars, filterVars >>

ReadFindMessage(s) ==
  /\ At(s, "findMsg")
  /\ LET r == reqs[s]
         found == MessagesOf(r.file)
     IN  reqs' = [reqs EXCEPT ![s] =
           IF found = {} THEN handleFileError(r, "File message not found")
           ELSE Await([r EXCEPT !.room = (CHOOSE m \in found : TRUE).room], "findRoom")]
  /\ UNCHANGED << files, messages, store, acked, nextId, deletedOk >>
  /\ UNCHANGED << userVars, filterVars >>

\* const room = await Room.findOne(...); back in the handler, viewFile checks
\* isPreviewable; then the GetObjectCommand is built and getSignedUrl awaited.
ReadFindRoom(s) ==
  /\ At(s, "findRoom")
  /\ LET r == reqs[s]
     IN  reqs' = [reqs EXCEPT ![s] =
           IF ~RoomGrants(r.room, r.user) THEN handleFileError(r, "Unauthorized access")
           ELSE IF r.kind = "view" /\ PreviewRefused(r.file)
             THEN Respond(r, 415, Body("preview not supported", FALSE))
           ELSE Await(r, "presign")]
  /\ UNCHANGED << files, messages, store, acked, nextId, deletedOk >>
  /\ UNCHANGED << userVars, filterVars >>

\* const signedUrl = await getSignedUrl(s3, command, { expiresIn: 60 });
\* res.redirect(signedUrl) -- or the signer throws and handleFileError answers.
ReadPresign(s) ==
  /\ At(s, "presign")
  /\ LET r == reqs[s]
     IN  \/ reqs' = [reqs EXCEPT ![s] =
                [Respond(r, 302, Body("redirect", FALSE)) EXCEPT !.url = r.file.path]]
         \/ reqs' = [reqs EXCEPT ![s] = handleFileError(r, "signer error")]
  /\ UNCHANGED << files, messages, store, acked, nextId, deletedOk >>
  /\ UNCHANGED << userVars, filterVars >>

\* ---- deleteFile ----

\* File.findById(req.params.id)
FindById(id) == { f \in files : f.id = id }

\* file.user.toString() !== req.user.id
NotOwnerNever(f, u) == FALSE
NotOwner(f, u) == f.user # u

\* file.deleteOne(): the catalog without the document (no error when the
\* document is already gone)
CatalogKeep(f) == files
CatalogRemove(f) == { g \in files : g.id # f.id }

DeleteStart(s, u, id) ==
  /\ Free(s)
  /\ reqs' = [reqs EXCEPT ![s] =
        Await([NoReq EXCEPT !.kind = "delete", !.user = u,
                             !.arg = [n |-> id, ext |-> <<>>]], "findById")]
  /\ UNCHANGED << files, messages, store, acked, nextId, deletedOk >>
  /\ UNCHANGED << userVars, filterVars >>

\* const file = await File.findById(id); 404 when absent, 403 when not the
\* owner's; else the DeleteObjectCommand is built and sent.
DeleteFindEager(s) ==
  /\ At(s, "findById")
  /\ LET r == reqs[s]
         found == FindById(r.arg.n)
         f == CHOOSE g \in found : TRUE
     IN  /\ store' = IF found = {} THEN store ELSE store \ {f.path}
         /\ reqs' = [reqs EXCEPT ![s] =
               IF found = {} THEN Respond(r, 404, Body("file not found", FALSE))
               ELSE IF NotOwner(f, r.user)
                 THEN Respond([r EXCEPT !.file = f], 403, Body("not allowed to delete", FALSE))
               ELSE Await([r EXCEPT !.file = f], "deleteOne")]
  /\ UNCHANGED << files, messages, acked, nextId, deletedOk >>
  /\ UNCHANGED << userVars, filterVars >>

DeleteFind(s) ==
  /\ At(s, "findById")
  /\ LET r == reqs[s]
         found == FindById(r.arg.n)
         f == CHOOSE g \in found : TRUE
     IN  reqs' = [reqs EXCEPT ![s] =
           IF found = {} THEN Respond(r, 404, Body("file not found", FALSE))
           ELSE IF NotOwner(f, r.user)
             THEN Respond([r EXCEPT !.file = f], 403, Body("not allowed to delete", FALSE))
           ELSE Await([r EXCEPT !.file = f], "s3del")]
  /\ UNCHANGED << files, messages, store, acked, nextId, deletedOk >>
  /\ UNCHANGED << userVars, filterVars >>

\* await s3.send(deleteCommand): the object is deleted (also when it is
\* already absent), or the call throws and the catch answers 500 with
\* error.message.
DeleteStoreStrict(s) ==
  /\ At(s, "s3del")
  /\ LET r == [reqs[s] EXCEPT !.absent = (reqs[s].file.path \notin store)]
     IN  \/ /\ r.absent
            /\ reqs' = [reqs EXCEPT ![s] = Respond(r, 404, Body("file not found", FALSE))]
            /\ UNCHANGED store
         \/ /\ ~r.absent
            /\ store' = store \ {r.file.path}
            /\ reqs' = [reqs EXCEPT ![s] = Await(r, "deleteOne")]
         \/ /\ reqs' = [reqs EXCEPT ![s] =
                 Respond([r EXCEPT !.s3err = TRUE], 500, Body("delete error", TRUE))]
            /\ UNCHANGED store
  /\ UNCHANGED << files, messages, acked, nextId, deletedOk >>
  /\ UNCHANGED << userVars, filterVars >>

DeleteStoreRetry(s) ==
  /\ At(s, "s3del")
  /\ LET r == [reqs[s] EXCEPT !.absent = (reqs[s].file.path \notin store)]
     IN  \/ /\ store' = store \ {r.file.path}
            /\ reqs' = [reqs EXCEPT ![s] = Await(r, "deleteOne")]
         \/ /\ ~r.s3err
            /\ reqs' = [reqs EXCEPT ![s] = Await([r EXCEPT !.s3err = TRUE], "s3del")]
            /\ UNCHANGED store
         \/ /\ r.s3err
            /\ reqs' = [reqs EXCEPT ![s] = Respond(r, 500, Body("delete error", TRUE))]
            /\ UNCHANGED store
  /\ UNCHANGED << files, messages, acked, nextId, deletedOk >>
  /\ UNCHANGED << userVars, filterVars >>

DeleteStore(s) ==
  /\ At(s, "s3del")
  /\ LET r == [reqs[s] EXCEPT !.absent = (reqs[s].file.path \notin store)]
     IN  \/ /\ store' = store \ {r.file.path}
            /\ reqs' = [reqs EXCEPT ![s] = Await(r, "deleteOne")]
         \/ /\ reqs' = [reqs EXCEPT ![s] =
                 Respond([r EXCEPT !.s3err = TRUE], 500, Body("delete error", TRUE))]
            /\ UNCHANGED store
  /\ UNCHANGED << files, messages, acked, nextId, deletedOk >>
  /\ UNCHANGED << userVars, filterVars >>

\* await file.deleteOne(); res.json({ success: true })
DeleteCatalog(s) ==
  /\ At(s, "deleteOne")
  /\ files' = CatalogRemove(reqs[s].file)
  /\ deletedOk' = deletedOk \cup {reqs[s].file.filename}
  /\ reqs' = [reqs EXCEPT ![s] =
        Respond([reqs[s] EXCEPT !.dup = (reqs[s].file.filename \in deletedOk)], 200,
                Body("file deleted", FALSE))]
  /\ UNCHANGED << messages, store, acked, nextId >>
  /\ UNCHANGED << userVars, filterVars >>

\* ---- the file controller as a system ----

InitUsers == [u \in UserIds |-> [exists |-> TRUE, name |-> "n0", profileImage |-> NoKey]]

InitFiles ==
  /\ files = {}
  /\ messages = {}
  /\ store = {}
  /\ acked = {}
  /\ nextId = 1
  /\ deletedOk = {}
  /\ reqs = [s \in Slots |-> NoReq]

InitUsersIdle ==
  /\ users = InitUsers
  /\ cache = [u \in UserIds |-> NoDoc]
  /\ ureqs = [s \in USlots |-> NoUReq]
  /\ controller = "svc"
  /\ closed = {}

InitFilterIdle ==
  /\ fin = [mimetype |-> Mime("", ""), name |-> FileName(0, <<>>)]
  /\ fout = [ok |-> FALSE, msg |-> "not run", type |-> "none"]

Init == InitFiles /\ InitUsersIdle /\ InitFilterIdle

Next ==
  \/ \E s \in Slots, u \in Uploaders, hasFile \in BOOLEAN, i \in UploadInputs,
        size \in UploadSizes :
        UploadStart(s, u, hasFile, i.mimetype, i.name, size)
  \/ \E s \in Slots : UploadPut(s)
  \/ \E s \in Slots : UploadSave(s)
  \/ \E f \in files, room \in RoomIds : PostMessage(f, room)
  \/ \E k \in store : RemoveObject(k)
  \/ \E s \in Slots, kind \in {"download", "view"}, u \in UserIds,
        name \in ReadNames \cup {NoName}, hasToken \in BOOLEAN, hasSession \in BOOLEAN :
        ReadStart(s, kind, u, name, hasToken, hasSession)
  \/ \E s \in Slots : ReadFindFile(s)
  \/ \E s \in Slots : ReadFindMessage(s)
  \/ \E s \in Slots : ReadFindRoom(s)
  \/ \E s \in Slots : ReadPresign(s)
  \/ \E s \in Slots, u \in UserIds, id \in 1..MaxFiles : DeleteStart(s, u, id)
  \/ \E s \in Slots : DeleteFind(s)
  \/ \E s \in Slots : DeleteStore(s)
  \/ \E s \in Slots : DeleteCatalog(s)
  \/ \E s \in Slots : Finish(s)

Spec == Init /\ [][Next]_vars

(***************************************************************************)
(* Part 4.  Properties of the file controller                              *)
(***************************************************************************)

IsRead(r) == r.kind \in {"download", "view"}

\* the request's lookups returned the attachment and its owning message
ChainResolved(r) == r.file # NoFile /\ r.room # ""

\* C1: downloadFile and viewFile answer 403, with no signed URL, whenever the
\* attachment and its owning message were found but the requester is not a
\* participant of the message's room; and a signed URL is only ever produced
\* for a requester who is a participant of the room reached from the
\* attachment through its message.
C1_ReadNeedsMembership ==
  \A s \in Slots :
    LET r == reqs[s]
    IN  IsRead(r) =>
          /\ (r.pc = "done" /\ ChainResolved(r) /\ r.user \notin Participants(r.room))
               => (r.status = 403 /\ r.url = NoKey)
          /\ (r.url # NoKey \/ r.pc = "presign")
               => \E m \in messages : /\ m.file = r.file.id
                                      /\ r.file.filename = r.arg
                                      /\ r.user \in Participants(m.room)

C1_Witness ==
  \E s \in Slots :
    /\ reqs[s].kind = "view" /\ reqs[s].pc = "done" /\ ChainResolved(reqs[s])
    /\ reqs[s].user \notin Participants(reqs[s].room)
    /\ reqs[s].status = 403

\* C2: deleteFile by a requester who is not the attachment's owner answers
\* 403 and changes neither the catalog nor the object store; such a request
\* never reaches the store delete or the catalog removal, participant of the
\* attachment's room or not.
C2_NonOwnerDeleteRefused ==
  /\ [](\A s \in Slots :
          (reqs[s].kind = "delete" /\ reqs[s].file # NoFile
             /\ reqs[s].file.user # reqs[s].user)
          => (reqs[s].pc = "done" /\ reqs[s].status = 403))
  /\ [][\A s \in Slots :
          (reqs[s].pc = "findById" /\ reqs'[s].file # NoFile
             /\ reqs'[s].file.user # reqs'[s].user)
          => (files' = files /\ store' = store /\ reqs'[s].file \in files')]_vars

C2_Witness ==
  \E s \in Slots :
    /\ reqs[s].kind = "delete" /\ reqs[s].pc = "done" /\ reqs[s].status = 403
    /\ reqs[s].file \in files /\ reqs[s].file.path \in store
    /\ \E m \in messages : m.file = reqs[s].file.id /\ reqs[s].user \in Participants(m.room)

\* C3 (as claimed): when the store delete of the owner's deleteFile fails, the
\* catalog record is still removed and the request still answers success.
C3_StoreFailureNotFatal ==
  \A s \in Slots :
    (reqs[s].kind = "delete" /\ reqs[s].pc = "done" /\ reqs[s].s3err)
      => (reqs[s].status = 200 /\ reqs[s].file \notin files)

\* C4 (as claimed): of the owner's deleteFile requests for one attachment at
\* most one answers success; a success is never answered for an attachment
\* whose deletion has already been answered with success.
C4_OneDeleteSucceeds ==
  \A s \in Slots :
    (reqs[s].kind = "delete" /\ reqs[s].pc = "done" /\ reqs[s].status = 200)
      => ~reqs[s].dup

\* C6: a catalog record exists only for a key whose put the object store has
\* acknowledged; file.save() is only ever started after the acknowledgement;
\* an upload that was rejected or whose put failed leaves no catalog record.
C6_StoreThenCatalog ==
  /\ \A f \in files : f.path \in acked
  /\ \A s \in Slots :
       LET r == reqs[s]
       IN  r.kind = "upload" =>
             /\ r.pc = "save" => r.file.path \in acked
             /\ (r.pc = "done" /\ r.status # 200) => r.file \notin files
             /\ (r.pc = "done" /\ r.status \in {400, 413}) => r.file.path \notin acked

C6_Witness ==
  \E s \in Slots :
    /\ reqs[s].kind = "upload" /\ reqs[s].pc = "done" /\ reqs[s].status = 200
    /\ reqs[s].file \in files /\ reqs[s].file.path \in acked

\* C7: once the owner's deleteFile of an attachment has answered success,
\* every downloadFile or viewFile that starts later for its filename, by any
\* authenticated requester, answers 404 and gets no signed URL.
C7_DeletedIsGone ==
  \A s \in Slots :
    LET r == reqs[s]
    IN  (IsRead(r) /\ r.late) =>
          /\ r.url = NoKey
          /\ r.pc \notin {"findMsg", "findRoom", "presign"}
          /\ (r.pc = "done" /\ r.status # 401) => r.status = 404

C7_Witness ==
  \E s \in Slots :
    /\ reqs[s].kind = "download" /\ reqs[s].late /\ reqs[s].pc = "done"
    /\ reqs[s].status = 404 /\ reqs[s].user = "u1"
    /\ \E m \in messages : m.file = reqs[s].arg.n /\ "u1" \in Participants(m.room)

\* C8: viewFile never presigns an attachment that is not previewable: an
\* authorized participant gets 415, and 415 is only answered after the
\* room-membership chain has succeeded.
C8_ViewOnlyPreviewable ==
  \A s \in Slots :
    LET r == reqs[s]
    IN  r.kind = "view" =>
          /\ (r.pc = "presign" \/ r.url # NoKey) => isPreviewable(r.file)
          /\ (r.pc = "done" /\ ChainResolved(r) /\ r.user \in Participants(r.room)
                /\ ~isPreviewable(r.file)) => (r.status = 415 /\ r.url = NoKey)
          /\ r.status = 415 => (ChainResolved(r) /\ r.user \in Participants(r.room))

C8_Witness ==
  \E s \in Slots :
    /\ reqs[s].kind = "view" /\ reqs[s].pc = "done" /\ reqs[s].status = 415
    /\ reqs[s].file.mimetype = MimeDocx

\* the smaller of two numbers
Min(a, b) == IF a <= b THEN a ELSE b

\* C11 (as claimed): the smaller of the size-class limit and the 50MB cap
\* governs an upload: a file larger than it is rejected and never gets a
\* catalog record.
C11_SizeLimitGoverns ==
  /\ \A f \in files : f.size <= Min(validateFileSize(f).limitInMB, MaxUploadMB)
  /\ \A s \in Slots :
       LET r == reqs[s]
       IN  (r.kind = "upload" /\ r.pc = "done" /\ r.file # NoFile
              /\ r.file.size > Min(validateFileSize(r.file).limitInMB, MaxUploadMB))
             => r.status # 200

\* C12: getFileFromRequest has one outcome per request, that of the first
\* check that fails, in the order: no filename (400), no token or no session
\* id (401), no attachment (404), no owning message (404, with its own
\* message), requester not a participant (403); else the attachment is
\* returned.  No lookup is issued without filename and credentials, and each
\* lookup's outcome is that of the catalog when the lookup returns.
C12_ResolverOrder ==
  /\ [](\A s \in Slots :
          LET r == reqs[s]
          IN  IsRead(r) =>
                /\ r.calls # <<>> => (r.arg # NoName /\ r.cred)
                /\ r.pc = "done" =>
                     /\ r.arg = NoName => (r.status = 400 /\ r.calls = <<>>)
                     /\ (r.arg # NoName /\ ~r.cred) => (r.status = 401 /\ r.calls = <<>>)
                     /\ (r.arg # NoName /\ r.cred /\ r.file = NoFile)
                          => /\ r.status = 404 /\ r.body.msg = "file not found"
                             /\ r.calls = <<"findFile">>
                     /\ (r.file # NoFile /\ r.room = "")
                          => /\ r.status = 404 /\ r.body.msg = "file message not found"
                             /\ r.calls = <<"findFile", "findMsg">>
                     /\ (ChainResolved(r) /\ r.user \notin Participants(r.room))
                          => /\ r.status = 403 /\ r.body.msg = "no access to file"
                             /\ r.calls = <<"findFile", "findMsg", "findRoom">>
                     /\ (ChainResolved(r) /\ r.user \in Participants(r.room))
                          => r.status \in {302, 415, 500})
  /\ [][\A s \in Slots :
          LET r == reqs[s]
              q == reqs'[s]
          IN  /\ (r.pc = "findFile" /\ q # r)
                   => (q.pc = "done" <=> FindByName(r.arg) = {})
              /\ (r.pc = "findMsg" /\ q # r)
                   => (q.pc = "done" <=> MessagesOf(r.file) = {})
              /\ (r.pc = "findRoom" /\ q # r)
                   => (q.status = 403 <=> r.user \notin Participants(r.room))]_vars

C12_Witness ==
  \E s \in Slots :
    /\ IsRead(reqs[s]) /\ reqs[s].pc = "done" /\ reqs[s].cred
    /\ reqs[s].file \in files /\ reqs[s].room = ""
    /\ reqs[s].status = 404 /\ reqs[s].body.msg = "file message not found"

\* C13: the owner's deleteFile of an attachment whose object is no longer in
\* the store goes on to remove the catalog record and answers success: the
\* store's delete of an absent object is not an error.
C13_AbsentObjectDeleteSucceeds ==
  \A s \in Slots :
    LET r == reqs[s]
    IN  (r.kind = "delete" /\ r.absent /\ ~r.s3err) =>
          /\ r.pc \in {"deleteOne", "done"}
          /\ r.pc = "done" => (r.status = 200 /\ r.file \notin files
                                 /\ r.file.path \notin store)

C13_Witness ==
  \E s \in Slots :
    /\ reqs[s].kind = "delete" /\ reqs[s].pc = "done" /\ reqs[s].absent
    /\ reqs[s].status = 200 /\ ~reqs[s].dup /\ reqs[s].file \notin files
    /\ \A t \in Slots \ {s} : reqs[t].pc = "idle"

\* C14: the storage key of every catalog record, and of every upload under
\* way, begins with 'uploads/', and the record's filename is the last segment
\* of its key.
C14_KeysUnderUploads ==
  /\ \A f \in files : isPathSafe(f.path) /\ f.filename = LastSegment(f.path)
  /\ \A s \in Slots :
       (reqs[s].kind = "upload" /\ reqs[s].file # NoFile)
         => (isPathSafe(reqs[s].file.path)
               /\ reqs[s].file.filename = LastSegment(reqs[s].file.path))

C14_Witness ==
  \E f \in files :
    /\ f.mimetype = MimeDocx /\ f.path \in store
    /\ f.path[1] = "uploads" /\ f.filename.ext = ExtDocx

\* C15 (as claimed): no error response of upload, download, view or delete
\* carries the message of the internal error.
C15_NoInternalDetail ==
  \A s \in Slots :
    (reqs[s].pc = "done" /\ reqs[s].status >= 400) => ~reqs[s].body.detail

\* no call occurs twice in a request's log of calls
NoRetry(calls) == \A i, j \in DOMAIN calls : i # j => calls[i] # calls[j]

\* C16: a request of the file controller is answered exactly once and ends
\* with its answer: it leaves only through its response, nothing is called
\* or changed once the response is written, no call is issued twice, and
\* each continuation either answers or issues exactly one further call.
C16_TerminalOnFirstResponse ==
  /\ [](\A s \in Slots :
          /\ reqs[s].nresp <= 1
          /\ reqs[s].pc = "done" <=> reqs[s].nresp = 1
          /\ NoRetry(reqs[s].calls))
  /\ [][\A s \in Slots :
          LET r == reqs[s]
              q == reqs'[s]
          IN  /\ r.pc = "done"
                   => /\ q = NoReq \/ q = r
                      /\ files' = files /\ messages' = messages /\ store' = store
              /\ (r # NoReq /\ q = NoReq) => r.pc = "done"
              /\ (r.pc # "done" /\ q # r)
                   => \/ q.pc = "done" /\ q.calls = r.calls
                      \/ q.pc # "done" /\ q.calls = Append(r.calls, q.pc)]_vars

C16_Witness ==
  \E s \in Slots :
    /\ reqs[s].kind = "delete" /\ reqs[s].pc = "done" /\ reqs[s].s3err
    /\ reqs[s].status = 500 /\ reqs[s].nresp = 1
    /\ reqs[s].calls = <<"findById", "s3del">>

\* C17: no step of downloadFile or viewFile, and no step of a deleteFile up
\* to its ownership check, changes the catalog, the messages or the store;
\* deleteFile answers 403 and 404 only from that check.
C17_ChainsReadOnly ==
  [][\A s \in Slots :
       LET r == reqs[s]
           q == reqs'[s]
           same == files' = files /\ messages' = messages /\ store' = store
       IN  /\ (q # r /\ (IsRead(r) \/ IsRead(q))) => same
           /\ (q # r /\ q.kind = "delete" /\ r.pc \in {"idle", "findById"}) => same
           /\ (q # r /\ q.kind = "delete" /\ q.pc = "done" /\ q.status \in {403, 404})
                => r.pc = "findById"]_vars

C17_Witness ==
  \E s \in Slots :
    /\ reqs[s].kind = "download" /\ reqs[s].pc = "done" /\ reqs[s].status = 302
    /\ reqs[s].file \in files /\ reqs[s].file.path \in store
    /\ \E m \in messages : m.file = reqs[s].file.id

\* C22: an attachment of the catalog that no message references is served
\* to nobody, its owner included: downloadFile and viewFile answer 404 with
\* no signed URL and are never past the message lookup; the owner's
\* deleteFile of it, the store not failing, removes the record and answers
\* success.
C22_OrphanUnreadableButDeletable ==
  /\ [](\A s \in Slots :
          LET r == reqs[s]
          IN  /\ (IsRead(r) /\ r.file # NoFile /\ r.room = "")
                   => /\ r.pc \in {"findMsg", "done"}
                      /\ r.url = NoKey
                      /\ r.pc = "done" => r.status = 404
              /\ (r.kind = "delete" /\ r.pc = "done" /\ r.file # NoFile
                     /\ r.file.user = r.user /\ ~r.s3err)
                   => (r.status = 200 /\ r.file \notin files))
  /\ [][\A s \in Slots :
          LET r == reqs[s]
              q == reqs'[s]
          IN  /\ (IsRead(r) /\ r.pc = "findMsg" /\ q # r /\ MessagesOf(r.file) = {})
                   => (q.pc = "done" /\ q.status = 404 /\ q.url = NoKey /\ q.room = "")
              /\ (r.kind = "delete" /\ r.pc = "findById" /\ q # r
                     /\ \E f \in files : f.id = r.arg.n /\ f.user = r.user
                                            /\ MessagesOf(f) = {})
                   => q.pc = "s3del"]_vars

C22_Witness ==
  \E s, t \in Slots :
    /\ IsRead(reqs[s]) /\ reqs[s].pc = "done" /\ reqs[s].status = 404
    /\ reqs[s].file \in files /\ reqs[s].user = reqs[s].file.user
    /\ MessagesOf(reqs[s].file) = {}
    /\ reqs[t].kind = "delete" /\ reqs[t].pc = "deleteOne"
    /\ reqs[t].file = reqs[s].file /\ reqs[t].user = reqs[s].user

(***************************************************************************)
(* Part 5.  User controllers: controllers/userController.js ("ctl") and    *)
(*          the controller of part_001 that uses ProfileCacheService       *)
(*          ("svc")                                                        *)
(***************************************************************************)

\* ---- inputs of the model ----
ProfileUsers == {"u1"}
ImageInputs  == { <<"uploads", "a.png">>, <<"avatars", "b.png">> }
Controllers  == {"ctl", "svc"}
NameInputs   == {"n1"}
UKinds       == {"getProfile", "updateProfile", "uploadProfileImage",
                 "deleteProfileImage", "deleteAccount"}

\* "https://" + bucket + ".s3.ap-northeast-2.amazonaws.com/" + profileImage,
\* as '/'-separated segments
ImageUrl(profileImage) == <<"https:", "", "bucket.s3.ap-northeast-2.amazonaws.com">> \o profileImage

\* user.profileImage.replace(/^.*\/uploads\//, 'uploads/'): everything up to
\* the last "/uploads/" becomes "uploads/"; a string without "/uploads/" is
\* returned as it is.
ProfileKey(url) ==
  LET hits == { i \in 2..(Len(url) - 1) : url[i] = "uploads" }
  IN  IF hits = {} THEN url
      ELSE LET i == CHOOSE j \in hits : \A k \in hits : k <= j
           IN  <<"uploads">> \o SubSeq(url, i + 1, Len(url))

\* ProfileCacheService.formatProfile, on the fields the handlers change
formatProfile(doc) == [name |-> doc.name, profileImage |-> doc.profileImage]

UQuiet == \A s \in USlots : ureqs[s].pc # "done"
UFree(s) == UQuiet /\ ureqs[s].pc = "idle" /\ \A t \in USlots : t < s => ureqs[t].pc # "idle"
UAt(s, pc) == UQuiet /\ ureqs[s].pc = pc
URespond(r, status) == [r EXCEPT !.pc = "done", !.status = status]

fileVars == << files, messages, acked, nextId, deletedOk, reqs >>

\* the response has been written: the request is over
UFinish(s) ==
  /\ ureqs[s].pc = "done"
  /\ ureqs' = [ureqs EXCEPT ![s] = NoUReq]
  /\ UNCHANGED << users, cache, store, fileVars, filterVars, controller, closed >>

\* A handler of the serving controller up to its first await: getProfile
\* reads the cache; updateProfile (400 without a name), uploadProfileImage
\* (400 without an image), deleteProfileImage and deleteAccount call
\* User.findById(userId).
UStart(s, ctl, kind, u, img, name) ==
  /\ UFree(s)
  /\ ctl = controller
  /\ kind \in UKinds
  /\ (kind # "uploadProfileImage") => img = NoKey
  /\ (kind # "updateProfile") => name = ""
  /\ LET r0 == [NoUReq EXCEPT !.ctl = ctl, !.kind = kind, !.user = u, !.img = img,
                              !.name = name, !.late = (u \in closed)]
     IN  ureqs' = [ureqs EXCEPT ![s] =
           IF kind = "uploadProfileImage" /\ img = NoKey THEN URespond(r0, 400)
           ELSE IF kind = "updateProfile" /\ name = "" THEN URespond(r0, 400)
           ELSE IF kind = "getProfile" THEN [r0 EXCEPT !.pc = "cacheGet"]
           ELSE [r0 EXCEPT !.pc = "findUser"]]
  /\ UNCHANGED << users, cache, store, fileVars, filterVars, controller, closed >>

\* getProfile: const cachedProfile = await redisClient.get(cacheKey) -- a hit
\* is answered from the cache; a miss and a read error go on to the database.
UCacheGet(s) ==
  /\ UAt(s, "cacheGet")
  /\ LET r == ureqs[s]
     IN  \/ /\ cache[r.user] # NoDoc
            /\ ureqs' = [ureqs EXCEPT ![s] =
                 URespond([r EXCEPT !.served = cache[r.user], !.fromCache = TRUE], 200)]
         \/ /\ cache[r.user] = NoDoc
            /\ ureqs' = [ureqs EXCEPT ![s] = [r EXCEPT !.pc = "findUser"]]
         \/ ureqs' = [ureqs EXCEPT ![s] = [r EXCEPT !.pc = "findUser", !.cacheErr = TRUE]]
  /\ UNCHANGED << users, cache, store, fileVars, filterVars, controller, closed >>

\* getProfile: await redisClient.setEx(cacheKey, ttl, profile) -- a write
\* error is logged; the profile read from the database is answered.
UCacheFillThrows(s) ==
  /\ UAt(s, "cacheSet")
  /\ LET r == [ureqs[s] EXCEPT !.served = formatProfile(ureqs[s].doc)]
     IN  \/ /\ cache' = [cache EXCEPT ![r.user] = formatProfile(r.doc)]
            /\ ureqs' = [ureqs EXCEPT ![s] = URespond(r, 200)]
         \/ /\ UNCHANGED cache
            /\ ureqs' = [ureqs EXCEPT ![s] =
                 URespond([r EXCEPT !.cacheErr = TRUE, !.served = NoDoc], 500)]
  /\ UNCHANGED << users, store, fileVars, filterVars, controller, closed >>

UCacheFill(s) ==
  /\ UAt(s, "cacheSet")
  /\ LET r == [ureqs[s] EXCEPT !.served = formatProfile(ureqs[s].doc)]
     IN  \/ /\ cache' = [cache EXCEPT ![r.user] = formatProfile(r.doc)]
            /\ ureqs' = [ureqs EXCEPT ![s] = URespond(r, 200)]
         \/ /\ UNCHANGED cache
            /\ ureqs' = [ureqs EXCEPT ![s] = URespond([r EXCEPT !.cacheErr = TRUE], 200)]
  /\ UNCHANGED << users, store, fileVars, filterVars, controller, closed >>

\* setEx(cacheKey, 300, ...): the entry expires
CacheExpire(u) ==
  /\ UQuiet
  /\ cache[u] # NoDoc
  /\ cache' = [cache EXCEPT ![u] = NoDoc]
  /\ UNCHANGED << users, ureqs, store, fileVars, filterVars, controller, closed >>

\* const user = await User.findById(userId): 404 when absent.  getProfile
\* goes on to fill the cache, updateProfile to the save.  The image handlers
\* and deleteAccount: with an old image its key is computed and the
\* DeleteObjectCommand sent; without one the handler goes on to the save
\* (deleteProfileImage: answers success).
UFindUser(s) ==
  /\ UAt(s, "findUser")
  /\ LET r == ureqs[s]
         u == users[r.user]
         d == [name |-> u.name, profileImage |-> u.profileImage]
     IN  ureqs' = [ureqs EXCEPT ![s] =
           IF ~u.exists THEN URespond(r, 404)
           ELSE IF r.kind = "getProfile" THEN [r EXCEPT !.pc = "cacheSet", !.doc = d]
           ELSE IF r.kind = "updateProfile"
             THEN [r EXCEPT !.pc = "save", !.doc = [d EXCEPT !.name = r.name]]
           ELSE IF d.profileImage # NoKey
             THEN [r EXCEPT !.pc = "s3del", !.doc = d, !.key = ProfileKey(d.profileImage)]
           ELSE IF r.kind = "deleteProfileImage" THEN URespond([r EXCEPT !.doc = d], 200)
           ELSE [r EXCEPT !.pc = "save", !.doc = d]]
  /\ UNCHANGED << users, cache, store, fileVars, filterVars, controller, closed >>

\* try { await s3.send(new DeleteObjectCommand({ Key: key })) } catch { log }
US3DeleteAborts(s) ==
  /\ UAt(s, "s3del")
  /\ LET r == [ureqs[s] EXCEPT !.sent = ureqs[s].key]
     IN  \/ /\ store' = store \ {r.key}
            /\ ureqs' = [ureqs EXCEPT ![s] = [r EXCEPT !.pc = "save"]]
         \/ /\ ureqs' = [ureqs EXCEPT ![s] = URespond([r EXCEPT !.s3err = TRUE], 500)]
            /\ UNCHANGED store
  /\ UNCHANGED << users, cache, fileVars, filterVars, controller, closed >>

US3Delete(s) ==
  /\ UAt(s, "s3del")
  /\ LET r == [ureqs[s] EXCEPT !.sent = ureqs[s].key]
     IN  \/ /\ store' = store \ {r.key}
            /\ ureqs' = [ureqs EXCEPT ![s] = [r EXCEPT !.pc = "save"]]
         \/ /\ ureqs' = [ureqs EXCEPT ![s] = [r EXCEPT !.pc = "save", !.s3err = TRUE]]
            /\ UNCHANGED store
  /\ UNCHANGED << users, cache, fileVars, filterVars, controller, closed >>

\* user.profileImage = ...; await user.save()  (the document is gone: save
\* throws, 500)  /  await user.deleteOne()
USave(s) ==
  /\ UAt(s, "save")
  /\ LET r == ureqs[s]
         image == IF r.kind = "uploadProfileImage" THEN ImageUrl(r.img) ELSE NoKey
     IN  IF r.kind = "deleteAccount"
           THEN /\ users' = [users EXCEPT ![r.user] = NoUser]
                /\ ureqs' = [ureqs EXCEPT ![s] = [r EXCEPT !.pc = "cache", !.saved = TRUE]]
         ELSE IF ~users[r.user].exists
           THEN /\ ureqs' = [ureqs EXCEPT ![s] = URespond([r EXCEPT !.saveErr = TRUE], 500)]
                /\ UNCHANGED users
         ELSE IF r.kind = "updateProfile"
           THEN /\ users' = [users EXCEPT ![r.user].name = r.name]
                /\ ureqs' = [ureqs EXCEPT ![s] = [r EXCEPT !.pc = "cache", !.saved = TRUE]]
         ELSE /\ users' = [users EXCEPT ![r.user].profileImage = image]
              /\ ureqs' = [ureqs EXCEPT ![s] =
                   [r EXCEPT !.pc = "cache", !.saved = TRUE, !.doc.profileImage = image]]
  /\ UNCHANGED << cache, store, fileVars, filterVars, controller, closed >>

\* ctl: await invalidateProfileCache(userId) -- redis del, errors logged.
\* svc: await ProfileCacheService.updateProfile(userId, user) -- redis setEx,
\*      errors rethrown (500); deleteAccount: invalidateProfile, errors logged.
\* Then res.json({ success: true }).
UCache(s) ==
  /\ UAt(s, "cache")
  /\ closed' = IF ureqs[s].kind = "deleteAccount" THEN closed \cup {ureqs[s].user}
               ELSE closed
  /\ LET r == ureqs[s]
     IN  IF r.ctl = "ctl" \/ r.kind = "deleteAccount"
           THEN \/ /\ cache' = [cache EXCEPT ![r.user] = NoDoc]
                   /\ ureqs' = [ureqs EXCEPT ![s] = URespond(r, 200)]
                \/ /\ UNCHANGED cache
                   /\ ureqs' = [ureqs EXCEPT ![s] = URespond([r EXCEPT !.cacheErr = TRUE], 200)]
         ELSE \/ /\ cache' = [cache EXCEPT ![r.user] = formatProfile(r.doc)]
                 /\ ureqs' = [ureqs EXCEPT ![s] = URespond(r, 200)]
              \/ /\ UNCHANGED cache
                 /\ ureqs' = [ureqs EXCEPT ![s] = URespond([r EXCEPT !.cacheErr = TRUE], 500)]
  /\ UNCHANGED << users, store, fileVars, filterVars, controller >>

InitUser ==
  /\ files = {} /\ messages = {} /\ acked = {} /\ nextId = 1 /\ deletedOk = {}
  /\ reqs = [s \in Slots |-> NoReq]
  /\ store = ImageInputs
  /\ users = InitUsers
  /\ cache = [u \in UserIds |-> NoDoc]
  /\ ureqs = [s \in USlots |-> NoUReq]
  /\ controller \in Controllers
  /\ closed = {}
  /\ InitFilterIdle

NextUser ==
  \/ \E s \in USlots, ctl \in Controllers, kind \in UKinds, u \in ProfileUsers,
        img \in ImageInputs \cup {NoKey}, name \in NameInputs \cup {""} :
        UStart(s, ctl, kind, u, img, name)
  \/ \E s \in USlots : UCacheGet(s)
  \/ \E s \in USlots : UCacheFill(s)
  \/ \E u \in ProfileUsers : CacheExpire(u)
  \/ \E s \in USlots : UFindUser(s)
  \/ \E s \in USlots : US3Delete(s)
  \/ \E s \in USlots : USave(s)
  \/ \E s \in USlots : UCache(s)
  \/ \E s \in USlots : UFinish(s)

SpecUser == InitUser /\ [][NextUser]_vars

\* C5 (as claimed): every command sent to the object store carries a key
\* that begins with 'uploads/'.
C5_StoreKeysSafe ==
  /\ \A s \in USlots : ureqs[s].sent # NoKey => isPathSafe(ureqs[s].sent)
  /\ \A s \in Slots : (reqs[s].pc = "deleteOne" \/ reqs[s].url # NoKey)
                         => isPathSafe(reqs[s].file.path)

\* C9: when the store delete of the old profile image fails in
\* uploadProfileImage, deleteProfileImage or deleteAccount, the handler goes
\* on to the user record mutation, and the request answers success; an error
\* answer is then only ever due to the save or the cache write itself.
C9_ImageDeleteBestEffort ==
  \A s \in USlots :
    LET r == ureqs[s]
    IN  r.s3err =>
          /\ r.pc \in {"save", "cache", "done"}
          /\ r.pc \in {"cache", "done"} => (r.saved \/ r.saveErr)
          /\ (r.pc = "done" /\ ~r.saveErr /\ ~r.cacheErr) => (r.status = 200 /\ r.saved)
          /\ (r.pc = "done" /\ r.ctl = "ctl" /\ ~r.saveErr) => r.status = 200

C9_Witness ==
  \E s \in USlots :
    /\ ureqs[s].kind = "uploadProfileImage" /\ ureqs[s].pc = "done"
    /\ ureqs[s].s3err /\ ureqs[s].status = 200
    /\ users[ureqs[s].user].profileImage = ImageUrl(ureqs[s].img)

\* no request of the user controller is in flight
UIdle == \A s \in USlots : ureqs[s].pc = "idle"

\* C18 (as claimed): whenever no request is in flight, a cached profile of a
\* user equals the user's database record, name and profile image.
C18_CacheCoherent ==
  UIdle =>
    \A u \in ProfileUsers :
      cache[u] # NoDoc => (users[u].exists /\ cache[u] = formatProfile(users[u]))

\* C19 (as claimed): a getProfile that starts after the user's deleteAccount
\* has responded with success answers 404 and serves no profile.
C19_ClosedAccountNotServed ==
  \A s \in USlots :
    LET r == ureqs[s]
    IN  (r.kind = "getProfile" /\ r.late) =>
          /\ r.served = NoDoc
          /\ r.pc = "done" => r.status = 404

\* C20 (as claimed): updateProfile, uploadProfileImage and deleteProfileImage
\* answer 500 only when the user's record has not been written.
C20_ErrorMeansUnchanged ==
  \A s \in USlots :
    LET r == ureqs[s]
    IN  (r.kind \in {"updateProfile", "uploadProfileImage", "deleteProfileImage"}
           /\ r.pc = "done" /\ r.status = 500) => ~r.saved

\* C21: getProfile tolerates a failing cache: after a failed cache read or
\* cache write it answers the profile it read from the database, not from
\* the cache, or 404 when the user does not exist, and never an error; it
\* reports fromCache only for a profile that it read from the cache, without
\* reading the database.
C21_GetProfileToleratesCache ==
  /\ [](\A s \in USlots :
          LET r == ureqs[s]
          IN  r.kind = "getProfile" =>
                /\ (r.cacheErr /\ r.pc = "done")
                     => \/ r.status = 200 /\ ~r.fromCache /\ r.doc # NoDoc
                              /\ r.served = formatProfile(r.doc)
                        \/ r.status = 404 /\ ~r.fromCache /\ r.served = NoDoc
                              /\ ~users[r.user].exists
                /\ r.status # 500
                /\ r.fromCache
                     => /\ r.pc = "done" /\ r.status = 200 /\ ~r.cacheErr
                        /\ r.doc = NoDoc /\ r.served = cache[r.user])
  /\ [][\A s \in USlots :
          LET r == ureqs[s]
              q == ureqs'[s]
          IN  (r.kind = "getProfile" /\ r.pc = "findUser" /\ q # r /\ users[r.user].exists)
                => q.doc = formatProfile(users[r.user])]_vars

C21_Witness ==
  \E s \in USlots :
    /\ ureqs[s].kind = "getProfile" /\ ureqs[s].pc = "done" /\ ureqs[s].cacheErr
    /\ ureqs[s].status = 200 /\ ~ureqs[s].fromCache
    /\ ureqs[s].served = formatProfile(users[ureqs[s].user])
    /\ ureqs[s].served.name = "n1"
    /\ cache[ureqs[s].user] # NoDoc /\ cache[ureqs[s].user] # ureqs[s].served

(***************************************************************************)
(* Part 6.  fileFilter on its own: every content type against every name   *)
(***************************************************************************)

\* ---- inputs of the model ----
FilterMimes == DOMAIN ALLOWED_TYPES \cup { Mime("text", "html"), Mime("image", "bmp") }
FilterNames ==
  { FileName(1, e) : e \in AllowedExtensions } \cup
  { FileName(1, <<".", "P", "N", "G">>),              \* a.PNG
    FileName(1, <<".", "e", "x", "e">>),              \* a.exe
    FileName(1, <<".", "p", "n", "g", ".", "e", "x", "e">>),  \* a.png.exe
    FileName(0, ExtPng),                              \* .png
    FileName(1, <<>>),                                \* a
    FileName(251, ExtPng),                            \* 255 bytes
    FileName(252, ExtPng),                            \* 256 bytes
    FileName(248, <<"xED", "x95", "x9C">> \o ExtPng), \* 255 bytes, one 3-byte character
    FileName(249, <<"xFF">> \o ExtPng) }              \* 254 bytes sent, 256 canonical

InitFilter ==
  /\ InitFiles
  /\ InitUsersIdle
  /\ fin \in [mimetype : FilterMimes, name : FilterNames]
  /\ fout = [ok |-> FALSE, msg |-> "not run", type |-> "none"]

\* multer calls fileFilter(req, file, cb) for the file of the request
ApplyFilter ==
  /\ fout.msg = "not run"
  /\ fout' = fileFilter(fin.mimetype, fin.name)
  /\ UNCHANGED << fin, files, messages, store, acked, nextId, deletedOk, reqs, userVars >>

NextFilter == ApplyFilter

SpecFilter == InitFilter /\ [][NextFilter]_vars

FilterRan == fout.msg # "not run"

\* C10: fileFilter accepts a file iff its content type is a key of
\* ALLOWED_TYPES, its canonical name is at most 255 bytes long and the
\* lower-cased extension of that name is listed for the content type; a
\* content type outside the list and an extension not listed for the type
\* are rejected with different messages that name the type's category.
C10_FilterAcceptsIff ==
  FilterRan =>
    LET m    == fin.mimetype
        name == CanonicalName(fin.name)
        ext  == toLowerCase(extname(name))
    IN  /\ fout.ok <=> ( /\ m \in DOMAIN ALLOWED_TYPES
                         /\ ByteLength(name) <= 255
                         /\ ext \in ALLOWED_TYPES[m] )
        /\ m \notin DOMAIN ALLOWED_TYPES
             => (fout.msg = "unsupported format" /\ fout.type = getFileType(m))
        /\ (m \in DOMAIN ALLOWED_TYPES /\ ByteLength(name) <= 255 /\ ext \notin ALLOWED_TYPES[m])
             => (fout.msg = "wrong extension" /\ fout.type = getFileType(m))
        /\ (m = Mime("image", "png") /\ fin.name = FileName(1, <<".", "e", "x", "e">>))
             => (~fout.ok /\ fout.msg = "wrong extension" /\ fout.type = "image")
        /\ (m = Mime("image", "png") /\ fin.name = FileName(1, <<".", "P", "N", "G">>))
             => fout.ok
        /\ fin.name = FileName(249, <<"xFF">> \o ExtPng) => ~fout.ok

C10_Witness ==
  /\ FilterRan
  /\ fin.mimetype = Mime("image", "png")
  /\ fin.name = FileName(1, <<".", "e", "x", "e">>)
  /\ ~fout.ok

====
